---- MODULE Spec2Model ----
(***************************************************************************)
(* EarlyAllocator<PAGE_SIZE> of arceos/modules/bump_allocator: a double-   *)
(* ended bump allocator over one region.  Bytes are handed out forward     *)
(* from b_pos, pages backward from p_pos.  Every field is a usize; the     *)
(* arithmetic of the code is unchecked `+`, `-`, `*`, which panics in a    *)
(* build with overflow checks (debug) and wraps modulo 2^Bits otherwise    *)
(* (release).  The model keeps both outcomes.                              *)
(***************************************************************************)
EXTENDS Integers, FiniteSets

\* Width of usize in the model (64 in the real build).
Bits == 4

\* Largest num_pages argument tried below the one whose size overflows.
MaxPages == 3

\* Cap on the number of successful byte allocations between two inits.
MaxCount == 2

\* Cap on the number of successful page allocations between two inits.
MaxPageAllocs == 3

\* Cap on the successful allocations between two inits while the history of
\* handed-out addresses is kept.
MaxGiven == 3

\* Longest run of alloc_pages(1, PAGE_SIZE) calls counted after an init.
MaxRun == 3

\* The const generic PAGE_SIZE, instantiated with a small power of two.
PAGE_SIZE == 4

Word == 2 ^ Bits

Addrs == 0 .. (Word - 1)

\* isize::MAX, the largest size a Layout can hold once rounded up to its align.
IsizeMax == (Word \div 2) - 1

\* Powers of two representable in a usize.
Pow2s == { 2 ^ k : k \in 0 .. (Bits - 1) }

\* Sizes tried for alloc: empty, one byte, a page less one, a page, the largest.
AllocSizes == {0, 1, PAGE_SIZE - 1, PAGE_SIZE, IsizeMax}

\* core::alloc::Layout: align is a power of two and size, rounded up to
\* align, does not exceed isize::MAX.
Layouts ==
    { l \in [size : AllocSizes, align : Pow2s] :
        ((l.size + l.align - 1) \div l.align) * l.align <= IsizeMax }

\* Arguments tried for init: a page-aligned start, an unaligned one and one in
\* the upper half of the address space; an empty region, one that is no whole
\* number of pages and one of two pages.
InitStarts == {PAGE_SIZE, PAGE_SIZE + 1, Word - 2 * PAGE_SIZE}
InitSizes == {0, PAGE_SIZE + 1, 2 * PAGE_SIZE}

\* Arguments tried for alloc_pages.
NumPages == (0 .. MaxPages) \cup {Word \div PAGE_SIZE}

\* Arguments tried for the calls that ignore their arguments.
IgnoredAddrs == {0, PAGE_SIZE}
IgnoredSizes == {1}

----------------------------------------------------------------------------
\* usize arithmetic

WrapAdd(a, b) == (a + b) % Word
WrapSub(a, b) == (a - b + Word) % Word
WrapMul(a, b) == (a * b) % Word
AddOverflows(a, b) == a + b >= Word
SubOverflows(a, b) == a < b
MulOverflows(a, b) == a * b >= Word

\* a & b, bit by bit
RECURSIVE BitAndBits(_, _)
BitAndBits(a, b) ==
    IF a = 0 \/ b = 0
    THEN 0
    ELSE (a % 2) * (b % 2) + 2 * BitAndBits(a \div 2, b \div 2)

\* a & b for every pair of usize values, computed once
BitAndTable == [a \in Addrs |-> [b \in Addrs |-> BitAndBits(a, b)]]

\* a & b
BitAnd(a, b) == BitAndTable[a][b]

\* !a on a usize
BitNot(a) == (Word - 1) - a

----------------------------------------------------------------------------
VARIABLES
    start, end, b_pos, p_pos, count,  \* the fields of EarlyAllocator
    overflow_checks,                  \* the build: TRUE panics on overflow, FALSE wraps
    op,                               \* the last call made
    ret,                              \* what the last call returned
    inited,                           \* whether init has been called
    tracking,                         \* whether the history of handed-out addresses is kept
    byte_cells,                       \* addresses handed out by alloc since the last init
    page_cells,                       \* addresses handed out by alloc_pages since the last init
    last_page,                        \* address of the last successful alloc_pages since init, or NoAddr
    pages_given,                      \* number of successful alloc_pages since the last init
    pg_run                            \* number of alloc_pages(1, PAGE_SIZE) calls that are the only calls since init, or Broken

vars == <<start, end, b_pos, p_pos, count, overflow_checks, op, ret,
          inited, tracking, byte_cells, page_cells, last_page, pages_given, pg_run>>

fields == <<start, end, b_pos, p_pos, count>>

\* No page address yet: one past the largest address.
NoAddr == Word

\* The run of alloc_pages(1, PAGE_SIZE) calls was interrupted or outgrew MaxRun.
Broken == MaxRun + 1

RetNone == [kind |-> "None", val |-> 0]
RetUnit == [kind |-> "Unit", val |-> 0]
RetNoMemory == [kind |-> "NoMemory", val |-> 0]
RetPanic == [kind |-> "Panic", val |-> 0]
RetOk(v) == [kind |-> "Ok", val |-> v]

\* A panic halts the kernel: no call is made after it.
Running == ret.kind # "Panic"

\* The addresses of the extent [addr, addr + size) in the usize address space.
Cells(addr, size) ==
    { (addr + i) % Word : i \in 0 .. ((IF size > Word THEN Word ELSE size) - 1) }

\* EarlyAllocator::new()
new ==
    /\ start = 0
    /\ end = 0
    /\ b_pos = 0
    /\ p_pos = 0
    /\ count = 0
    /\ overflow_checks \in BOOLEAN
    /\ inited = FALSE
    /\ op = "new"
    /\ ret = RetNone
    /\ byte_cells = {}
    /\ page_cells = {}
    /\ last_page = NoAddr
    /\ pages_given = 0
    /\ pg_run = Broken

Init == new /\ tracking = FALSE

InitExtents == new /\ tracking = TRUE

----------------------------------------------------------------------------
\* BaseAllocator

\* init without `self.count = 0`: the count of the previous region survives
init_keeping_count(start_vaddr, size) ==
    /\ Running
    /\ op' = "init"
    /\ UNCHANGED <<overflow_checks, tracking, count>>
    /\ IF overflow_checks /\ AddOverflows(start_vaddr, size)
       THEN /\ start' = start_vaddr
            /\ ret' = RetPanic
            /\ UNCHANGED <<end, b_pos, p_pos, inited,
                           byte_cells, page_cells, last_page, pages_given, pg_run>>
       ELSE /\ start' = start_vaddr
            /\ end' = WrapAdd(start_vaddr, size)
            /\ b_pos' = start_vaddr
            /\ p_pos' = end'
            /\ ret' = RetUnit
            /\ inited' = TRUE
            /\ byte_cells' = {}
            /\ page_cells' = {}
            /\ last_page' = NoAddr
            /\ pages_given' = 0
            /\ pg_run' = 0

init(start_vaddr, size) ==
    /\ Running
    /\ op' = "init"
    /\ UNCHANGED <<overflow_checks, tracking>>
    /\ IF overflow_checks /\ AddOverflows(start_vaddr, size)
       THEN \* `start_vaddr + size` panics after self.start was written
            /\ start' = start_vaddr
            /\ ret' = RetPanic
            /\ UNCHANGED <<end, b_pos, p_pos, count, inited,
                           byte_cells, page_cells, last_page, pages_given, pg_run>>
       ELSE /\ start' = start_vaddr
            /\ end' = WrapAdd(start_vaddr, size)
            /\ b_pos' = start_vaddr
            /\ p_pos' = end'
            /\ count' = 0
            /\ ret' = RetUnit
            /\ inited' = TRUE
            /\ byte_cells' = {}
            /\ page_cells' = {}
            /\ last_page' = NoAddr
            /\ pages_given' = 0
            /\ pg_run' = 0

\* add_memory that takes a region adjoining the end and extends the allocator
add_memory_extending(start_vaddr, size) ==
    /\ Running
    /\ op' = "add_memory"
    /\ pg_run' = Broken
    /\ IF start_vaddr = end
       THEN /\ end' = WrapAdd(end, size)
            /\ ret' = RetUnit
       ELSE /\ end' = end
            /\ ret' = RetNoMemory
    /\ UNCHANGED <<start, b_pos, p_pos, count, overflow_checks, inited, tracking, byte_cells, page_cells, last_page, pages_given>>

add_memory(start_vaddr, size) ==
    /\ Running
    /\ op' = "add_memory"
    /\ ret' = RetNoMemory
    /\ pg_run' = Broken
    /\ UNCHANGED <<fields, overflow_checks, inited, tracking, byte_cells, page_cells, last_page, pages_given>>

----------------------------------------------------------------------------
\* ByteAllocator

\* new_pos without the mask: the sum is returned as it is
alloc_new_pos_unmasked(b, align) ==
    WrapAdd(b, align - 1)

\* let new_pos = (self.b_pos + align_mask) & !align_mask;
alloc_new_pos(b, align) ==
    BitAnd(WrapAdd(b, align - 1), BitNot(align - 1))

\* let new_end = new_pos + size;
alloc_new_end(b, size, align) ==
    WrapAdd(alloc_new_pos(b, align), size)

\* one of the two additions overflows
alloc_overflows(b, size, align) ==
    \/ AddOverflows(b, align - 1)
    \/ AddOverflows(alloc_new_pos(b, align), size)

\* if new_end <= self.p_pos
alloc_fits(b, p, size, align) ==
    alloc_new_end(b, size, align) <= p

\* Ok(unsafe { core::ptr::NonNull::new_unchecked(new_pos as *mut u8) }): a
\* null new_pos breaks the contract of new_unchecked, which is undefined
\* behaviour: the null pointer comes back inside Ok, or the precondition check
\* of a build with debug assertions aborts the call.
alloc_result(new_pos) ==
    IF new_pos = 0 THEN {RetOk(0), RetPanic} ELSE {RetOk(new_pos)}

alloc(size, align) ==
    /\ Running
    /\ op' = "alloc"
    /\ pg_run' = Broken
    /\ UNCHANGED <<start, end, p_pos, overflow_checks, inited, tracking, page_cells, last_page, pages_given>>
    /\ IF overflow_checks /\ alloc_overflows(b_pos, size, align)
       THEN /\ ret' = RetPanic
            /\ UNCHANGED <<b_pos, count, byte_cells>>
       ELSE IF alloc_fits(b_pos, p_pos, size, align)
       THEN /\ count < MaxCount
            /\ b_pos' = alloc_new_end(b_pos, size, align)
            /\ count' = count + 1
            /\ ret' \in alloc_result(alloc_new_pos(b_pos, align))
            /\ byte_cells' = IF tracking
                             THEN byte_cells \cup Cells(alloc_new_pos(b_pos, align), size)
                             ELSE byte_cells
       ELSE /\ ret' = RetNoMemory
            /\ UNCHANGED <<b_pos, count, byte_cells>>

\* dealloc as the comment on the struct describes it: count goes down, and at
\* zero the bytes-used area is freed
dealloc_reclaiming(pos, size, align) ==
    /\ Running
    /\ op' = "dealloc"
    /\ ret' = RetUnit
    /\ pg_run' = Broken
    /\ count' = IF count > 0 THEN count - 1 ELSE 0
    /\ b_pos' = IF count' = 0 THEN start ELSE b_pos
    /\ UNCHANGED <<start, end, p_pos, overflow_checks, inited, tracking, byte_cells, page_cells, last_page, pages_given>>

dealloc(pos, size, align) ==
    /\ Running
    /\ op' = "dealloc"
    /\ ret' = RetUnit
    /\ pg_run' = Broken
    /\ UNCHANGED <<fields, overflow_checks, inited, tracking, byte_cells, page_cells, last_page, pages_given>>

\* self.end - self.start
total_bytes == WrapSub(end, start)

\* (self.b_pos - self.start) + (self.end - self.p_pos)
used_bytes == WrapAdd(WrapSub(b_pos, start), WrapSub(end, p_pos))

\* self.p_pos - self.b_pos
available_bytes == WrapSub(p_pos, b_pos)

----------------------------------------------------------------------------
\* PageAllocator

\* let size = num_pages * PAGE_SIZE;
alloc_pages_size(num_pages) == WrapMul(num_pages, PAGE_SIZE)

\* let new_end = (self.p_pos - align_mask) & !align_mask;
alloc_pages_new_end(p, align) ==
    BitAnd(WrapSub(p, align - 1), BitNot(align - 1))

\* let new_pos = new_end - size;
alloc_pages_new_pos(p, num_pages, align) ==
    WrapSub(alloc_pages_new_end(p, align), alloc_pages_size(num_pages))

\* the multiplication or one of the two subtractions overflows
alloc_pages_overflows(p, num_pages, align) ==
    \/ MulOverflows(num_pages, PAGE_SIZE)
    \/ SubOverflows(p, align - 1)
    \/ SubOverflows(alloc_pages_new_end(p, align), alloc_pages_size(num_pages))

\* if new_pos >= self.b_pos
alloc_pages_fits(b, p, num_pages, align) ==
    alloc_pages_new_pos(p, num_pages, align) >= b

alloc_pages(num_pages, align_pow2) ==
    /\ Running
    /\ op' = "alloc_pages"
    /\ pg_run' = IF pg_run # Broken /\ num_pages = 1 /\ align_pow2 = PAGE_SIZE
                    /\ pg_run < MaxRun
                 THEN pg_run + 1
                 ELSE Broken
    /\ UNCHANGED <<start, end, b_pos, count, overflow_checks, inited, tracking, byte_cells>>
    /\ IF overflow_checks /\ alloc_pages_overflows(p_pos, num_pages, align_pow2)
       THEN /\ ret' = RetPanic
            /\ UNCHANGED <<p_pos, page_cells, last_page, pages_given>>
       ELSE IF alloc_pages_fits(b_pos, p_pos, num_pages, align_pow2)
       THEN /\ tracking => pages_given < MaxPageAllocs
            /\ p_pos' = alloc_pages_new_pos(p_pos, num_pages, align_pow2)
            /\ ret' = RetOk(p_pos')
            /\ page_cells' = IF tracking
                             THEN page_cells \cup Cells(p_pos', num_pages * PAGE_SIZE)
                             ELSE page_cells
            /\ last_page' = p_pos'
            /\ pages_given' = IF tracking THEN pages_given + 1 ELSE pages_given
       ELSE /\ ret' = RetNoMemory
            /\ UNCHANGED <<p_pos, page_cells, last_page, pages_given>>

dealloc_pages(pos, num_pages) ==
    /\ Running
    /\ op' = "dealloc_pages"
    /\ ret' = RetUnit
    /\ pg_run' = Broken
    /\ UNCHANGED <<fields, overflow_checks, inited, tracking, byte_cells, page_cells, last_page, pages_given>>

\* (self.end - self.start) / PAGE_SIZE
total_pages == WrapSub(end, start) \div PAGE_SIZE

\* ((self.end - self.p_pos) + PAGE_SIZE - 1) / PAGE_SIZE
used_pages == WrapAdd(WrapSub(end, p_pos), PAGE_SIZE - 1) \div PAGE_SIZE

\* (self.p_pos - self.b_pos) / PAGE_SIZE
available_pages == WrapSub(p_pos, b_pos) \div PAGE_SIZE

----------------------------------------------------------------------------
Next ==
    \/ \E s \in InitStarts, n \in InitSizes : init(s, n)
    \/ \E s \in IgnoredAddrs, n \in IgnoredSizes : add_memory(s, n)
    \/ \E l \in Layouts : alloc(l.size, l.align)
    \/ \E a \in IgnoredAddrs, n \in IgnoredSizes : dealloc(a, n, 1)
    \/ \E n \in NumPages, a \in Pow2s : alloc_pages(n, a)
    \/ \E a \in IgnoredAddrs, n \in IgnoredSizes : dealloc_pages(a, n)

Spec == Init /\ [][Next]_vars

\* The calls on one region of two pages, with the history of handed-out
\* addresses kept, at most MaxGiven successful allocations per init and no
\* num_pages whose size in bytes exceeds a usize.
Capped == count' + pages_given' <= MaxGiven

NextExtents ==
    \/ init(PAGE_SIZE, 2 * PAGE_SIZE) /\ Capped
    \/ \E s \in IgnoredAddrs, n \in IgnoredSizes : add_memory(s, n) /\ Capped
    \/ \E l \in Layouts : alloc(l.size, l.align) /\ Capped
    \/ \E a \in IgnoredAddrs, n \in IgnoredSizes : dealloc(a, n, 1) /\ Capped
    \/ \E n \in 0 .. MaxPages, a \in Pow2s : alloc_pages(n, a) /\ Capped
    \/ \E a \in IgnoredAddrs, n \in IgnoredSizes : dealloc_pages(a, n) /\ Capped

SpecExtents == InitExtents /\ [][NextExtents]_vars

----------------------------------------------------------------------------
\* The arithmetic of the specification, on unbounded integers.

\* round_up(x, a): the smallest multiple of a that is >= x
ExactRoundUp(x, a) == ((x + a - 1) \div a) * a

\* round_down(x, a): the largest multiple of a that is <= x
ExactRoundDown(x, a) == (x \div a) * a

\* new_end of alloc(size, align) at byte cursor b
ExactAllocEnd(b, size, align) == ExactRoundUp(b, align) + size

\* new_pos of alloc_pages(num_pages, align) at page cursor p
ExactPagesPos(p, num_pages, align) == ExactRoundDown(p, align) - num_pages * PAGE_SIZE

AllocOk == op = "alloc" /\ ret.kind = "Ok"
PagesOk == op = "alloc_pages" /\ ret.kind = "Ok"

----------------------------------------------------------------------------
\* C1: in every state reached from new() by any sequence of calls,
\* start <= b_pos <= p_pos <= end.
C1_Ordered ==
    Running => (start <= b_pos /\ b_pos <= p_pos /\ p_pos <= end)

\* C2: the extent of a successful alloc overlaps no extent handed out since
\* the last init by another alloc or by alloc_pages (and the extent of a
\* successful alloc_pages overlaps none handed out by alloc).
C2_NoOverlap ==
    [][ /\ \A l \in Layouts :
             (inited /\ alloc(l.size, l.align) /\ ret'.kind = "Ok")
                => Cells(ret'.val, l.size) \cap (byte_cells \cup page_cells) = {}
        /\ \A n \in NumPages, a \in Pow2s :
             (inited /\ alloc_pages(n, a) /\ ret'.kind = "Ok")
                => Cells(ret'.val, n * PAGE_SIZE) \cap byte_cells = {}
      ]_vars

\* C3: after init, an alloc whose new_end would exceed p_pos, and an alloc_pages whose
\* new_pos would be below b_pos, returns NoMemory and changes no field.
C3_FailsAtomically ==
    [][ /\ \A l \in Layouts :
             (inited /\ alloc(l.size, l.align) /\ ExactAllocEnd(b_pos, l.size, l.align) > p_pos)
                => (ret' = RetNoMemory /\ fields' = fields)
        /\ \A n \in NumPages, a \in Pow2s :
             (inited /\ alloc_pages(n, a) /\ ExactPagesPos(p_pos, n, a) < b_pos)
                => (ret' = RetNoMemory /\ fields' = fields)
      ]_vars

\* C4: after init, alloc(size, align) succeeds iff round_up(b_pos, align) + size <= p_pos,
\* and then sets b_pos to that sum, adds one to count and returns
\* round_up(b_pos, align).
C4_AllocContract ==
    [][ \A l \in Layouts :
          (inited /\ alloc(l.size, l.align))
            => /\ (ret'.kind = "Ok") <=> (ExactAllocEnd(b_pos, l.size, l.align) <= p_pos)
               /\ (ret'.kind = "Ok") =>
                     /\ b_pos' = ExactAllocEnd(b_pos, l.size, l.align)
                     /\ count' = count + 1
                     /\ ret'.val = ExactRoundUp(b_pos, l.align)
      ]_vars

\* C5: after init, alloc_pages(num_pages, align_pow2) succeeds iff
\* round_down(p_pos, align_pow2) - num_pages * PAGE_SIZE >= b_pos, and then
\* sets p_pos to that difference and returns it.  Stated for the calls whose
\* arithmetic does not overflow, where both builds do the same.
C5_PagesContract ==
    [][ \A n \in NumPages, a \in Pow2s :
          (inited /\ alloc_pages(n, a) /\ ~alloc_pages_overflows(p_pos, n, a))
            => /\ (ret'.kind = "Ok") <=> (ExactPagesPos(p_pos, n, a) >= b_pos)
               /\ (ret'.kind = "Ok") =>
                     /\ p_pos' = ExactPagesPos(p_pos, n, a)
                     /\ ret'.val = ExactPagesPos(p_pos, n, a)
      ]_vars

\* C6: after init on a page-aligned region of N pages and nothing else, the
\* k-th alloc_pages(1, PAGE_SIZE) returns end - k * PAGE_SIZE for k <= N, and
\* the (N+1)-th returns NoMemory.  Stated for the build with overflow checks
\* and the runs in which nothing panicked, so that no arithmetic has wrapped.
C6_PageByPage ==
    (/\ overflow_checks
     /\ Running
     /\ pg_run \in 1 .. MaxRun
     /\ start % PAGE_SIZE = 0
     /\ start <= end
     /\ (end - start) % PAGE_SIZE = 0)
        => LET N == (end - start) \div PAGE_SIZE
           IN  /\ pg_run <= N => ret = RetOk(end - pg_run * PAGE_SIZE)
               /\ pg_run = N + 1 => ret = RetNoMemory

\* C7: the address returned by a successful alloc(size, align) is a multiple
\* of align.
C7_AllocAligned ==
    [][ (op' = "alloc" /\ ret'.kind = "Ok")
          => \A l \in Layouts :
                alloc(l.size, l.align) => ret'.val % l.align = 0
      ]_vars

\* An alloc right after init on a region that starts one byte past a page
\* boundary returned the next double-page boundary: three bytes of padding.
C7_Witness ==
    /\ AllocOk
    /\ start = PAGE_SIZE + 1
    /\ count = 1
    /\ ret.val = 2 * PAGE_SIZE

\* C8: once init has been called, the address returned by a successful alloc
\* lies in [start, end).  Stated for the allocations of at least one byte.
C8_AllocInRegion ==
    [][ (inited /\ op' = "alloc" /\ ret'.kind = "Ok")
          => \A l \in Layouts :
                (l.size > 0 /\ alloc(l.size, l.align))
                   => (start <= ret'.val /\ ret'.val < end)
      ]_vars

\* C9: after init, the address returned by a successful
\* alloc_pages(num_pages, align_pow2) is a multiple of PAGE_SIZE and of
\* align_pow2.  Stated for the calls of at least one page whose arithmetic does
\* not overflow.
C9_PagesAligned ==
    [][ \A n \in NumPages, a \in Pow2s :
          (/\ inited
           /\ n >= 1
           /\ ~alloc_pages_overflows(p_pos, n, a)
           /\ alloc_pages(n, a)
           /\ ret'.kind = "Ok")
             => (ret'.val % PAGE_SIZE = 0 /\ ret'.val % a = 0)
      ]_vars

\* C10: between two inits, a successful alloc_pages returns an address
\* strictly below the one the previous successful alloc_pages returned.
\* Stated for the calls of at least one page.
C10_PagesDecrease ==
    [][ \A n \in NumPages, a \in Pow2s :
          (inited /\ n >= 1 /\ alloc_pages(n, a) /\ ret'.kind = "Ok" /\ last_page # NoAddr)
             => ret'.val < last_page
      ]_vars

\* C11: in every reachable state available_bytes() + used_bytes() equals
\* total_bytes(), and none of the subtractions b_pos - start, end - p_pos,
\* p_pos - b_pos, end - start underflows.
C11_BytesAccounted ==
    (inited /\ Running)
       => /\ ~SubOverflows(b_pos, start)
          /\ ~SubOverflows(end, p_pos)
          /\ ~SubOverflows(p_pos, b_pos)
          /\ ~SubOverflows(end, start)
          /\ available_bytes + used_bytes = total_bytes

C13_FreedAtZero ==
    [][ (inited /\ AllocOk /\ count = 1 /\ start < b_pos /\ op' = "dealloc")
          => (count' = 0 /\ b_pos' = start)
      ]_vars

\* C14: between two init calls, across every alloc, dealloc, alloc_pages,
\* dealloc_pages and add_memory step, b_pos never decreases, p_pos never
\* increases and available_bytes() never grows.
C14_CursorsMonotone ==
    [][ (inited /\ op' # "init")
          => /\ b_pos' >= b_pos
             /\ p_pos' <= p_pos
             /\ available_bytes' <= available_bytes
      ]_vars

C16_AddMemoryFails ==
    [][ (op' = "add_memory") => (ret' = RetNoMemory /\ fields' = fields) ]_vars

\* add_memory was called on an initialized allocator with a byte allocation
\* made and room left between the cursors.
C16_Witness ==
    /\ op = "add_memory"
    /\ ret = RetNoMemory
    /\ inited
    /\ count > 0
    /\ b_pos < p_pos

\* C17: the address returned by a successful alloc is never 0, in the state
\* built by new() (where no alloc succeeds) as after an init.
C17_AllocNonNull ==
    [][ (op' = "alloc" /\ ret'.kind = "Ok") => ret'.val # 0 ]_vars

\* C18: no allocation succeeds through wraparound.  After init, an alloc whose
\* additions leave the usize range, and an alloc_pages whose multiplication
\* or subtractions do while the exact round-down top minus
\* num_pages * PAGE_SIZE is below b_pos, returns NoMemory (no panic, no
\* success) and leaves b_pos, p_pos and count as they were.
C18_NoWrappedSuccess ==
    [][ /\ \A l \in Layouts :
             (/\ inited
              /\ alloc(l.size, l.align)
              /\ alloc_overflows(b_pos, l.size, l.align)
              /\ ExactAllocEnd(b_pos, l.size, l.align) > p_pos)
                => (ret' = RetNoMemory /\ <<b_pos, p_pos, count>>' = <<b_pos, p_pos, count>>)
        /\ \A n \in NumPages, a \in Pow2s :
             (/\ inited
              /\ alloc_pages(n, a)
              /\ alloc_pages_overflows(p_pos, n, a)
              /\ ExactPagesPos(p_pos, n, a) < b_pos)
                => (ret' = RetNoMemory /\ <<b_pos, p_pos, count>>' = <<b_pos, p_pos, count>>)
      ]_vars

\* C19: after init, the block returned by a successful
\* alloc_pages(num_pages, align_pow2) lies inside the region and below the
\* page cursor it started from: start <= base,
\* base + num_pages * PAGE_SIZE <= end and <= the p_pos before the call.
C19_PagesInRegion ==
    [][ (inited /\ op' = "alloc_pages" /\ ret'.kind = "Ok")
          => \A n \in NumPages, a \in Pow2s :
                alloc_pages(n, a)
                   => /\ start <= ret'.val
                      /\ ret'.val + n * PAGE_SIZE <= end
                      /\ ret'.val + n * PAGE_SIZE <= p_pos
      ]_vars

\* alloc(size, align) made with the cursors at b and p would return Ok.
AllocWouldSucceed(b, p, size, align) ==
    /\ ~(overflow_checks /\ alloc_overflows(b, size, align))
    /\ alloc_fits(b, p, size, align)

\* alloc_pages(num_pages, align_pow2) made with the cursors at b and p would
\* return Ok.
PagesWouldSucceed(b, p, num_pages, align) ==
    /\ ~(overflow_checks /\ alloc_pages_overflows(p, num_pages, align))
    /\ alloc_pages_fits(b, p, num_pages, align)

\* C20: exhaustion lasts until the next init.  A failed call leaves the
\* fields as they were, so the claim is that of every step but init: an alloc
\* or alloc_pages that fails before the step fails, with the same arguments,
\* after it.
C20_ExhaustionLasts ==
    [][ (inited /\ op' # "init")
          => /\ \A l \in Layouts :
                   ~AllocWouldSucceed(b_pos, p_pos, l.size, l.align)
                      => ~AllocWouldSucceed(b_pos', p_pos', l.size, l.align)
             /\ \A n \in NumPages, a \in Pow2s :
                   ~PagesWouldSucceed(b_pos, p_pos, n, a)
                      => ~PagesWouldSucceed(b_pos', p_pos', n, a)
      ]_vars

====
